---- MODULE Spec2Model ----
(***************************************************************************)
(* A model of the ADB-over-TCP connexion of adb_client                     *)
(* (src/src/adb_tcp_connexion.rs, src/src/commands/push.rs).               *)
(*                                                                         *)
(* Bytes are the integers 0..255 and a string or a buffer is a sequence of *)
(* bytes.  The socket is two byte streams: rx, the bytes the server has    *)
(* sent that the client has not read yet, and tx, the log of the           *)
(* write_all calls of the call in progress.  The server is the             *)
(* environment: it answers every request with a reply drawn from a small   *)
(* set of well-formed and malformed replies, and a peer that closes the    *)
(* socket after a truncated reply.  Writes to the socket succeed.          *)
(***************************************************************************)
EXTENDS Integers, Sequences, FiniteSets, TLC

VARIABLES
    socket_addr,    \* AdbTcpConnexion.socket_addr
    tcp_stream,     \* AdbTcpConnexion.tcp_stream: [id, peer] of the live socket
    connects,       \* number of TcpStream::connect calls that succeeded
    rx,             \* bytes received on tcp_stream and not read yet
    tx,             \* the write_all calls of the current call, in order
    nread,          \* bytes read from tcp_stream by the current call
    pc,             \* position of the client
    call,           \* the crate-level function entered last
    result,         \* what that function returned
    sync_mode,      \* server side: "sync:" was answered OKAY on this socket
    stale,          \* unread bytes that were already in rx when the call began
    junk,           \* bytes the server sent after its reply to the last request
    reply,          \* the server's reply to the last request of the call
    results,        \* what each send_adb_request of the call returned, in order
    arg,            \* arguments of the call in progress
    file_pos,       \* read position in the local file of a SEND
    dents_sent,     \* directory entries the server encoded in its LIST reply
    delivered,      \* directory entries handed to the caller of LIST
    unknown_streak  \* consecutive unknown tags logged by the LIST loop

vars == <<socket_addr, tcp_stream, connects, rx, tx, nread, pc, call, result,
          sync_mode, stale, junk, reply, results, arg, file_pos, dents_sent,
          delivered, unknown_streak>>

(***************************************************************************)
(* Bounds of the model.                                                    *)
(***************************************************************************)
MaxConnects == 2
MaxStale == 1
MaxCmdLen == 9999
MaxChunks == 2
MaxListing == 2
MaxUnknownStreak == 1

(***************************************************************************)
(* Bytes and ASCII words.                                                  *)
(***************************************************************************)
OKAY == <<79, 75, 65, 89>>
FAIL == <<70, 65, 73, 76>>
DENT == <<68, 69, 78, 84>>
DONE == <<68, 79, 78, 69>>
DATA == <<68, 65, 84, 65>>
ChunkSize == 65536

Min(a, b) == IF a < b THEN a ELSE b

Rep(b, n) == [i \in 1..n |-> b]

Drop(s, n) == SubSeq(s, n + 1, Len(s))

Take(s, n) == SubSeq(s, 1, n)

(***************************************************************************)
(* format!("{:04x}", n): lowercase hex, zero padded to at least 4 digits;  *)
(* a value above 0xffff is written in full, with more than 4 digits.       *)
(***************************************************************************)
HexDigit(d) == IF d < 10 THEN 48 + d ELSE 87 + d

RECURSIVE HexDigits(_)
HexDigits(n) == IF n < 16 THEN <<HexDigit(n)>>
                ELSE Append(HexDigits(n \div 16), HexDigit(n % 16))

\* the frame length written with "{:x}": no padding to 4 digits
Format04x_unpadded(n) == HexDigits(n)

Format04x(n) ==
    LET d == HexDigits(n)
    IN  IF Len(d) >= 4 THEN d ELSE Rep(48, 4 - Len(d)) \o d

(***************************************************************************)
(* str::from_utf8 / String::from_utf8: whether the bytes are well-formed   *)
(* UTF-8 (the table of the Unicode standard, as core::str validates it).   *)
(***************************************************************************)
IsCont(b) == b >= 128 /\ b <= 191

RECURSIVE IsUtf8(_)
IsUtf8(s) ==
    IF s = <<>> THEN TRUE
    ELSE LET b == s[1]
             n == Len(s)
         IN  CASE b < 128 -> IsUtf8(Drop(s, 1))
               [] b >= 194 /\ b <= 223 ->
                    n >= 2 /\ IsCont(s[2]) /\ IsUtf8(Drop(s, 2))
               [] b >= 224 /\ b <= 239 ->
                    /\ n >= 3
                    /\ IsCont(s[2]) /\ IsCont(s[3])
                    /\ (b = 224 => s[2] >= 160)
                    /\ (b = 237 => s[2] <= 159)
                    /\ IsUtf8(Drop(s, 3))
               [] b >= 240 /\ b <= 244 ->
                    /\ n >= 4
                    /\ IsCont(s[2]) /\ IsCont(s[3]) /\ IsCont(s[4])
                    /\ (b = 240 => s[2] >= 144)
                    /\ (b = 244 => s[2] <= 143)
                    /\ IsUtf8(Drop(s, 4))
               [] OTHER -> FALSE

(***************************************************************************)
(* u32::from_str_radix(s, 16): an optional leading '+', then one or more   *)
(* digits 0-9, a-f, A-F.  -1 stands for Err(ParseIntError).                *)
(***************************************************************************)
HexValue(b) ==
    CASE b >= 48 /\ b <= 57 -> b - 48
      [] b >= 97 /\ b <= 102 -> b - 87
      [] b >= 65 /\ b <= 70 -> b - 55
      [] OTHER -> -1

RECURSIVE HexAccumulate(_, _)
HexAccumulate(s, acc) ==
    IF s = <<>> THEN acc
    ELSE IF HexValue(s[1]) < 0 THEN -1
    ELSE HexAccumulate(Drop(s, 1), acc * 16 + HexValue(s[1]))

FromStrRadix16(s) ==
    LET digits == IF s # <<>> /\ s[1] = 43 THEN Drop(s, 1) ELSE s
    IN  IF digits = <<>> THEN -1 ELSE HexAccumulate(digits, 0)

(***************************************************************************)
(* byteorder::LittleEndian::write_u32 / read_u32.                          *)
(***************************************************************************)
WriteU32(n) == <<n % 256, (n \div 256) % 256, (n \div 65536) % 256,
                 (n \div 16777216) % 256>>

ReadU32(b) == b[1] + 256 * b[2] + 65536 * b[3] + 16777216 * b[4]

(***************************************************************************)
(* Results.  Ok is Ok(()), the other kinds are the RustADBError variants   *)
(* the ? operator converts into; Panic is an unwinding abort.              *)
(***************************************************************************)
Ok == [kind |-> "Ok", msg |-> <<>>]

Err(k) == [kind |-> k, msg |-> <<>>]

ADBRequestFailed(m) == [kind |-> "ADBRequestFailed", msg |-> m]

NoResult == [kind |-> "None", msg |-> <<>>]

(***************************************************************************)
(* The command vocabulary (crate::models).  An AdbCommand is a record      *)
(* [tag, serial]; its Display form is the wire token of the host command.  *)
(***************************************************************************)
HostTransportAny == <<104, 111, 115, 116, 58, 116, 114, 97, 110, 115, 112,
                      111, 114, 116, 45, 97, 110, 121>>

HostTransport == <<104, 111, 115, 116, 58, 116, 114, 97, 110, 115, 112, 111,
                   114, 116, 58>>

SyncToken == <<115, 121, 110, 99, 58>>

TransportAny == [tag |-> "TransportAny", serial |-> <<>>]

TransportSerial(s) == [tag |-> "TransportSerial", serial |-> s]

Sync == [tag |-> "Sync", serial |-> <<>>]

AdbCommandToString(c) ==
    CASE c.tag = "TransportAny" -> HostTransportAny
      [] c.tag = "TransportSerial" -> HostTransport \o c.serial
      [] c.tag = "Sync" -> SyncToken

\* AdbRequestStatus::from_str
AdbRequestStatusFromStr(s) ==
    CASE s = OKAY -> "Okay"
      [] s = FAIL -> "Fail"
      [] OTHER -> "Unknown"

\* SyncCommand's Display form: the 4-byte tag of the sub-command
SyncCommandToString(tag) ==
    CASE tag = "List" -> <<76, 73, 83, 84>>
      [] tag = "Send" -> <<83, 69, 78, 68>>
      [] tag = "Recv" -> <<82, 69, 67, 86>>
      [] tag = "Stat" -> <<83, 84, 65, 84>>

(***************************************************************************)
(* Read::read_exact(n) on the unread bytes `s`: when the peer closes       *)
(* before n bytes came, every byte that did come is consumed and the call  *)
(* fails with an I/O error (UnexpectedEof).                                *)
(***************************************************************************)
ReadExactOk(s, n) == Len(s) >= n

(***************************************************************************)
(* get_body_length(tcp_stream) on the unread bytes `s`:                    *)
(* [res, value, used] with used the bytes consumed.                        *)
(***************************************************************************)
get_body_length(s) ==
    IF ~ReadExactOk(s, 4)
    THEN [res |-> Err("IOError"), value |-> 0, used |-> Len(s)]
    ELSE LET length == Take(s, 4)
         IN  IF ~IsUtf8(length)
             THEN [res |-> Err("Utf8Error"), value |-> 0, used |-> 4]
             ELSE IF FromStrRadix16(length) < 0
             THEN [res |-> Err("ParseIntError"), value |-> 0, used |-> 4]
             ELSE [res |-> Ok, value |-> FromStrRadix16(length), used |-> 4]

(***************************************************************************)
(* The frame send_adb_request writes for a command.                        *)
(***************************************************************************)
adb_request(command) ==
    LET adb_command_string == AdbCommandToString(command)
    IN  Format04x(Len(adb_command_string)) \o adb_command_string

\* the Fail arm with read in place of read_exact: a body cut short by the
\* peer is returned as it came
read_fail_body_short(s) ==
    LET l == get_body_length(s)
        rest == Drop(s, l.used)
    IN  IF l.res # Ok THEN [res |-> l.res, used |-> l.used]
        ELSE LET body == Take(rest, Min(l.value, Len(rest)))
             IN  [res |-> IF IsUtf8(body) THEN ADBRequestFailed(body)
                          ELSE Err("Utf8Error"),
                  used |-> l.used + Len(body)]

\* the Fail arm without the read of the body: only the length is consumed
read_fail_body_undrained(s) ==
    LET l == get_body_length(s)
    IN  IF l.res # Ok THEN [res |-> l.res, used |-> l.used]
        ELSE [res |-> ADBRequestFailed(<<>>), used |-> l.used]

(***************************************************************************)
(* What send_adb_request does after the 4 status bytes said Fail, on the   *)
(* unread bytes `s` that follow them: [res, used].                         *)
(***************************************************************************)
read_fail_body(s) ==
    LET l == get_body_length(s)
        rest == Drop(s, l.used)
    IN  IF l.res # Ok THEN [res |-> l.res, used |-> l.used]
        ELSE IF l.value > 0 /\ ~ReadExactOk(rest, l.value)
        THEN [res |-> Err("IOError"), used |-> l.used + Len(rest)]
        ELSE LET body == Take(rest, l.value)
             IN  [res |-> IF IsUtf8(body) THEN ADBRequestFailed(body)
                          ELSE Err("Utf8Error"),
                  used |-> l.used + l.value]

\* send_adb_request taking every status word but "FAIL" for Okay
send_adb_request_other_is_okay(s, command) ==
    LET wrote == adb_request(command)
    IN  IF ~ReadExactOk(s, 4)
        THEN [wrote |-> wrote, res |-> Err("IOError"), used |-> Len(s)]
        ELSE IF Take(s, 4) = FAIL
        THEN [wrote |-> wrote, res |-> read_fail_body(Drop(s, 4)).res,
              used |-> 4 + read_fail_body(Drop(s, 4)).used]
        ELSE [wrote |-> wrote, res |-> Ok, used |-> 4]

\* send_adb_request with an Okay arm that reads a length after the status,
\* as proxy_connexion does for a response
send_adb_request_okay_reads_length(s, command) ==
    LET wrote == adb_request(command)
    IN  IF ~ReadExactOk(s, 4)
        THEN [wrote |-> wrote, res |-> Err("IOError"), used |-> Len(s)]
        ELSE IF Take(s, 4) = OKAY
        THEN [wrote |-> wrote, res |-> get_body_length(Drop(s, 4)).res,
              used |-> 4 + get_body_length(Drop(s, 4)).used]
        ELSE IF Take(s, 4) = FAIL
        THEN [wrote |-> wrote, res |-> read_fail_body(Drop(s, 4)).res,
              used |-> 4 + read_fail_body(Drop(s, 4)).used]
        ELSE [wrote |-> wrote, res |-> Err("UnknownResponseType"), used |-> 4]

(***************************************************************************)
(* send_adb_request(tcp_stream, command) with `s` the bytes the stream     *)
(* delivers: [wrote, res, used].                                           *)
(***************************************************************************)
send_adb_request(s, command) ==
    LET wrote == adb_request(command)
    IN  IF ~ReadExactOk(s, 4)
        THEN [wrote |-> wrote, res |-> Err("IOError"), used |-> Len(s)]
        ELSE LET request_status == Take(s, 4)
             IN  IF ~IsUtf8(request_status)
                 THEN [wrote |-> wrote, res |-> Err("Utf8Error"), used |-> 4]
                 ELSE CASE AdbRequestStatusFromStr(request_status) = "Fail" ->
                             LET f == read_fail_body(Drop(s, 4))
                             IN  [wrote |-> wrote, res |-> f.res,
                                  used |-> 4 + f.used]
                        [] AdbRequestStatusFromStr(request_status) = "Okay" ->
                             [wrote |-> wrote, res |-> Ok, used |-> 4]
                        [] OTHER ->
                             [wrote |-> wrote,
                              res |-> Err("UnknownResponseType"), used |-> 4]

\* Ok(body): the body proxy_connexion returns; Ok(vec![]) is OkBody(<<>>)
OkBody(body) == [kind |-> "Ok", msg |-> body]

\* proxy_connexion reading a response whatever with_response says
proxy_connexion_always_reads(s, adb_command, with_response) ==
    LET r == send_adb_request(s, adb_command)
        l == get_body_length(Drop(s, r.used))
        rest == Drop(s, r.used + l.used)
    IN  IF r.res # Ok THEN r
        ELSE IF l.res # Ok
        THEN [wrote |-> r.wrote, res |-> l.res, used |-> r.used + l.used]
        ELSE IF l.value > 0 /\ ~ReadExactOk(rest, l.value)
        THEN [wrote |-> r.wrote, res |-> Err("IOError"), used |-> Len(s)]
        ELSE [wrote |-> r.wrote, res |-> OkBody(Take(rest, l.value)),
              used |-> r.used + l.used + l.value]

(***************************************************************************)
(* proxy_connexion(adb_command, with_response) with `s` the bytes the      *)
(* stream delivers: [wrote, res, used].  The request is sent and its       *)
(* status read; then, for a response, a hex length and that many bytes.    *)
(***************************************************************************)
proxy_connexion(s, adb_command, with_response) ==
    LET r == send_adb_request(s, adb_command)
    IN  IF r.res # Ok THEN r
        ELSE IF with_response
        THEN LET l == get_body_length(Drop(s, r.used))
                 rest == Drop(s, r.used + l.used)
             IN  IF l.res # Ok
                 THEN [wrote |-> r.wrote, res |-> l.res, used |-> r.used + l.used]
                 ELSE IF l.value > 0 /\ ~ReadExactOk(rest, l.value)
                 THEN [wrote |-> r.wrote, res |-> Err("IOError"), used |-> Len(s)]
                 ELSE [wrote |-> r.wrote, res |-> OkBody(Take(rest, l.value)),
                       used |-> r.used + l.used + l.value]
        ELSE [wrote |-> r.wrote, res |-> OkBody(<<>>), used |-> r.used]

(***************************************************************************)
(* Paths.  Path::file_name is the last component when it is a normal one:  *)
(* trailing separators and "." components are skipped, and a path that     *)
(* ends in "..", is the root or is empty has none (<<>> stands for None).  *)
(***************************************************************************)
RECURSIVE LastSlash(_)
LastSlash(p) == IF p = <<>> THEN 0
                ELSE IF p[Len(p)] = 47 THEN Len(p)
                ELSE LastSlash(Take(p, Len(p) - 1))

RECURSIVE FileName(_)
FileName(p) ==
    IF p = <<>> THEN <<>>
    ELSE IF p[Len(p)] = 47 THEN FileName(Take(p, Len(p) - 1))
    ELSE LET c == Drop(p, LastSlash(p))
         IN  CASE c = <<46, 46>> -> <<>>
               [] c = <<46>> -> IF LastSlash(p) = 0 THEN <<>>
                                ELSE FileName(Take(p, LastSlash(p)))
               [] OTHER -> c

\* PathBuf::push of a relative, non-empty component
PathPush(base, name) ==
    IF base = <<>> \/ base[Len(base)] = 47 THEN base \o name
    ELSE base \o <<47>> \o name

\* handle_send_command: the path argument of the SEND header
send_to(from, to) == PathPush(to, FileName(from)) \o <<44, 48, 55, 55, 55>>

(***************************************************************************)
(* One write_all call: framed as a host request ("host"), as part of a     *)
(* sync frame ("sync"), or the bytes [off, off+len) of the local file that *)
(* follow a DATA header ("file").                                          *)
(***************************************************************************)
W(kind, bytes) == [kind |-> kind, bytes |-> bytes, off |-> 0, len |-> Len(bytes)]

FileSlice(off, len) == [kind |-> "file", bytes |-> <<>>, off |-> off, len |-> len]

\* the 8 byte common header of a sync sub-command and its argument
sync_header(tag, path) ==
    <<W("sync", SyncCommandToString(tag)), W("sync", WriteU32(Len(path))),
      W("sync", path)>>

\* a chunk whose header carries the length of the buffer, not of the read
data_chunk_buffer_len(off, bytes_read) ==
    <<W("sync", DATA), W("sync", WriteU32(ChunkSize)), FileSlice(off, bytes_read)>>

\* one chunk of handle_send_command's loop
data_chunk(off, bytes_read) ==
    <<W("sync", DATA), W("sync", WriteU32(bytes_read)), FileSlice(off, bytes_read)>>

\* File::read into the 64 KiB buffer, at offset `off` of a file of `size` bytes
file_read(size, off) == Min(ChunkSize, size - off)

\* the terminator of handle_send_command
done_frame(mtime) == <<W("sync", DONE), W("sync", WriteU32(mtime))>>

(***************************************************************************)
(* The environment: peer addresses, host commands, server replies, local   *)
(* files and directory listings.                                           *)
(***************************************************************************)
Addrs == {"127.0.0.1:5037", "127.0.0.1:5038"}

\* lengths of the serial of a TransportSerial: the last one makes a command
\* string of 65536 bytes, one more than 4 hex digits can count
SerialLens == {0, 3, 240, 241, MaxCmdLen - 15, 65536 - 15}

Commands == {TransportAny, Sync} \cup {TransportSerial(Rep(97, n)) : n \in SerialLens}

ErrorBody == <<101, 114, 114, 111, 114>>

Reply(body, extra) == [body |-> body, junk |-> extra]

HostReplies ==
    { Reply(OKAY, <<>>),
      Reply(OKAY, <<88>>),
      Reply(FAIL \o Format04x(0), <<>>),
      Reply(FAIL \o Format04x(0), <<88>>),
      Reply(FAIL \o Format04x(5) \o ErrorBody, <<>>),
      Reply(FAIL \o Format04x(5) \o ErrorBody, <<88, 89>>),
      Reply(FAIL \o Format04x(10) \o ErrorBody \o ErrorBody, <<88>>),
      Reply(FAIL \o <<48, 48, 48, 65>> \o ErrorBody \o ErrorBody, <<>>),
      Reply(FAIL \o Format04x(2) \o <<195, 169>>, <<88>>),
      Reply(FAIL \o Format04x(2) \o <<255, 254>>, <<>>),
      Reply(FAIL \o <<43, 48, 48, 53>> \o ErrorBody, <<>>),
      Reply(FAIL \o <<48, 48, 122, 122>>, <<>>),
      Reply(FAIL \o Format04x(5) \o <<101, 114>>, <<>>),
      Reply(<<79, 75>>, <<>>),
      Reply(<<79, 75, 65, 88>>, Format04x(5) \o ErrorBody),
      Reply(<<255, 75, 65, 89>>, <<>>) }

\* the commands sent through proxy_connexion
ProxyCommands == {TransportAny, Sync, TransportSerial(Rep(97, 3))}

ResponseBody == <<104, 101, 108, 108, 111>>

\* the server's answers to a request sent through proxy_connexion: those to
\* any host request, and OKAY followed by a response (empty, of 5 bytes with
\* and without bytes after it, cut short, with a length that is no number)
ProxyReplies ==
    HostReplies \cup
    { Reply(OKAY \o Format04x(0), <<>>),
      Reply(OKAY \o Format04x(0), <<88>>),
      Reply(OKAY \o Format04x(5) \o ResponseBody, <<>>),
      Reply(OKAY \o Format04x(5) \o ResponseBody, <<88, 89>>),
      Reply(OKAY \o <<48, 48, 48, 65>> \o ResponseBody \o ResponseBody, <<>>),
      Reply(OKAY \o Format04x(5) \o <<104, 101>>, <<>>),
      Reply(OKAY \o <<48, 48, 122, 122>>, <<>>),
      Reply(OKAY \o <<48, 48>>, <<>>) }

\* the server's answer to the DONE of a SEND: OKAY, or FAIL with a
\* little-endian length and a message
SendReplies == { OKAY, FAIL \o WriteU32(5) \o ErrorBody }

DirectoryEntry(mode, size, mtime, name) ==
    [fileMode |-> mode, fileSize |-> size, modTime |-> mtime, name |-> name]

Entries == { DirectoryEntry(33188, 10, 0, <<116, 101, 115, 116>>),
             DirectoryEntry(16877, 0, 1700000000, <<>>) }

EncodeDent(e) ==
    DENT \o WriteU32(e.fileMode) \o WriteU32(e.fileSize) \o WriteU32(e.modTime)
         \o WriteU32(Len(e.name)) \o e.name

UnknownTag == <<88, 88, 88, 88>>

\* a listing: DENT records and unknown tags, in any order
ListItems == { [tag |-> "DENT", entry |-> e] : e \in Entries }
             \cup { [tag |-> "unknown", entry |-> DirectoryEntry(0, 0, 0, <<>>)] }

Listings == UNION { [1..n -> ListItems] : n \in 0..MaxListing }

RECURSIVE EncodeListing(_)
EncodeListing(l) ==
    IF l = <<>> THEN <<>>
    ELSE (IF l[1].tag = "unknown" THEN UnknownTag ELSE EncodeDent(l[1].entry))
         \o EncodeListing(Tail(l))

RECURSIVE DentsOf(_)
DentsOf(l) ==
    IF l = <<>> THEN <<>>
    ELSE (IF l[1].tag = "unknown" THEN <<>> ELSE <<l[1].entry>>)
         \o DentsOf(Tail(l))

\* how a listing ends: DONE, DONE followed by a byte of the next phase, the
\* peer closing (at once, inside the fields of a DENT record, inside its
\* name), a tag that is no text
ListEndings ==
    { Reply(DONE, <<>>), Reply(DONE, <<88>>), Reply(<<>>, <<>>),
      Reply(DENT \o WriteU32(33188) \o <<10, 0>>, <<>>),
      Reply(DENT \o WriteU32(33188) \o WriteU32(10) \o WriteU32(0)
                 \o WriteU32(4) \o <<116, 101>>, <<>>),
      Reply(<<255, 79, 78, 69>>, <<>>) }

ListPaths == { <<47, 100, 97, 116, 97, 47>>, <<>> }

FileSizes == { k * ChunkSize + d : k \in 0..MaxChunks, d \in {0, 1, 2048} }

LocalFile(open, size, mode, meta, mtime) ==
    [open |-> open, size |-> size, mode |-> mode, meta |-> meta, mtime |-> mtime]

Files ==
    { LocalFile(TRUE, n, 420, "ok", 1700000000) : n \in FileSizes }
    \cup { LocalFile(TRUE, 1, 511, "ok", 0),
           LocalFile(FALSE, 0, 420, "ok", 0),
           LocalFile(TRUE, 1, 420, "unavailable", 0),
           LocalFile(TRUE, 1, 420, "before_epoch", 0) }

FromPaths == { <<102>>, <<97, 47, 102>>, <<46, 46>> }

ToPaths == { <<47, 100>>, <<47, 100, 47>>, <<>> }

\* Option<S>: <<>> is None, <<s>> is Some(s)
Serials == { <<>>, << <<97, 98, 99>> >> }

\* the file and the destination handed to push_command
PushFile == <<97, 47, 102>>

PushPath == <<47, 115, 100>>

NoFile == LocalFile(FALSE, 0, 0, "ok", 0)

NoArg == [from |-> <<>>, to |-> <<>>, file |-> NoFile, serial |-> <<>>,
          command |-> "none", adb |-> TransportAny, with_response |-> FALSE]

NoReply == Reply(<<>>, <<>>)

(***************************************************************************)
(* AdbTcpConnexion::new succeeded: the socket is connected to the address  *)
(* given, nothing was written and nothing came.                            *)
(***************************************************************************)
Socket(peer, id) == [peer |-> peer, id |-> id]

Init ==
    /\ socket_addr \in Addrs
    /\ tcp_stream = Socket(socket_addr, 1)
    /\ connects = 1
    /\ rx = <<>>
    /\ tx = <<>>
    /\ nread = 0
    /\ pc = "returned"
    /\ call = "new"
    /\ result = Ok
    /\ sync_mode = FALSE
    /\ stale = 0
    /\ junk = 0
    /\ reply = NoReply
    /\ results = <<>>
    /\ arg = NoArg
    /\ file_pos = 0
    /\ dents_sent = <<>>
    /\ delivered = <<>>
    /\ unknown_streak = 0

connVars == <<socket_addr, tcp_stream, connects>>

listVars == <<dents_sent, delivered, unknown_streak>>

\* a crate-level function is entered, on a socket whose unread bytes are `s`
Enter(name, a, s) ==
    /\ pc = "idle"
    /\ Len(s) <= MaxStale
    /\ call' = name
    /\ arg' = a
    /\ stale' = Len(s)

\* the caller takes the result; what the call left on the socket stays
Return ==
    /\ pc = "returned"
    /\ pc' = "idle"
    /\ call' = "none"
    /\ result' = NoResult
    /\ arg' = NoArg
    /\ tx' = <<>>
    /\ nread' = 0
    /\ stale' = 0
    /\ junk' = 0
    /\ reply' = NoReply
    /\ results' = <<>>
    /\ file_pos' = 0
    /\ dents_sent' = <<>>
    /\ delivered' = <<>>
    /\ unknown_streak' = 0
    /\ UNCHANGED <<connVars, rx, sync_mode>>

\* new_connection that gives up the socket it had before it connects: after
\* a failed connect the connexion holds a socket that is closed
new_connection_closes_first(connected) ==
    IF connected THEN Socket(socket_addr, connects + 1) ELSE Socket(socket_addr, 0)

\* new_connection that connects and drops the new socket: the connexion
\* goes on with the socket it had
new_connection_dropped(connected) == tcp_stream

(***************************************************************************)
(* new_connection: the socket is replaced when TcpStream::connect          *)
(* succeeded; a failed connect returns the error through `?` before the    *)
(* assignment.                                                             *)
(***************************************************************************)
new_connection(connected) ==
    IF connected THEN Socket(socket_addr, connects + 1) ELSE tcp_stream

NewConnection(connected) ==
    /\ tcp_stream' = new_connection(connected)
    /\ connects' = IF connected THEN connects + 1 ELSE connects
    /\ rx' = IF connected THEN <<>> ELSE rx
    /\ sync_mode' = IF connected THEN FALSE ELSE sync_mode
    /\ junk' = IF connected THEN 0 ELSE junk
    /\ UNCHANGED socket_addr

CallNewConnection ==
    \E connected \in BOOLEAN :
        /\ connects < MaxConnects
        /\ Enter("new_connection", NoArg, <<>>)
        /\ NewConnection(connected)
        /\ result' = IF connected THEN Ok ELSE Err("IOError")
        /\ pc' = "returned"
        /\ UNCHANGED <<tx, nread, reply, results, file_pos, listVars>>

(***************************************************************************)
(* One send_adb_request on the socket: the frame is written, the server    *)
(* answers with `reply`, the status (and the error body) is read.          *)
(***************************************************************************)
HostOutcome(command, answer) ==
    send_adb_request(rx \o answer.body \o answer.junk, command)

HostExchange(command, answer) ==
    LET r == HostOutcome(command, answer)
    IN  /\ tx' = Append(tx, W("host", r.wrote))
        /\ rx' = Drop(rx \o answer.body \o answer.junk, r.used)
        /\ nread' = nread + r.used
        /\ junk' = Len(answer.junk)
        /\ reply' = answer
        /\ results' = Append(results, r.res)
        /\ sync_mode' = (sync_mode \/ (command = Sync /\ r.res = Ok))
        /\ result' = r.res

CallSendAdbRequest ==
    \E command \in Commands, answer \in HostReplies :
        /\ Enter("send_adb_request", [NoArg EXCEPT !.adb = command], rx)
        /\ HostExchange(command, answer)
        /\ pc' = "returned"
        /\ UNCHANGED <<connVars, file_pos, listVars>>

(***************************************************************************)
(* One proxy_connexion on the socket: the request is written, the server   *)
(* answers with `answer`, the status and then the response are read.  The  *)
(* body returned is the msg of the result.                                 *)
(***************************************************************************)
CallProxyConnexion ==
    \E command \in ProxyCommands, with_response \in BOOLEAN,
       answer \in ProxyReplies :
        LET s == rx \o answer.body \o answer.junk
            r == proxy_connexion(s, command, with_response)
        IN  /\ Enter("proxy_connexion",
                     [NoArg EXCEPT !.adb = command,
                                   !.with_response = with_response], rx)
            /\ tx' = Append(tx, W("host", r.wrote))
            /\ rx' = Drop(s, r.used)
            /\ nread' = nread + r.used
            /\ junk' = Len(answer.junk)
            /\ reply' = answer
            /\ results' = Append(results, send_adb_request(s, command).res)
            /\ sync_mode' = (sync_mode
                               \/ (command = Sync /\ send_adb_request(s, command).res = Ok))
            /\ result' = r.res
            /\ pc' = "returned"
            /\ UNCHANGED <<connVars, file_pos, listVars>>

(***************************************************************************)
(* handle_list_command.  The header and the path are written and the       *)
(* server sends its listing; then one action per iteration of the loop.    *)
(***************************************************************************)
ListStart(path) ==
    \E l \in Listings, e \in ListEndings :
        /\ tx' = tx \o sync_header("List", path)
        /\ rx' = rx \o EncodeListing(l) \o e.body \o e.junk
        /\ junk' = Len(e.junk)
        /\ reply' = Reply(EncodeListing(l) \o e.body, e.junk)
        /\ dents_sent' = DentsOf(l)
        /\ delivered' = <<>>
        /\ unknown_streak' = 0
        /\ pc' = "list_loop"

\* the DENT arm: four u32 fields, then name_len bytes of name, all dropped
list_dent(s) ==
    IF ~ReadExactOk(s, 16)
    THEN [next |-> "return", res |-> Err("IOError"), used |-> Len(s),
          entries |-> <<>>, unknown |-> FALSE]
    ELSE LET name_len == ReadU32(SubSeq(s, 13, 16))
         IN  IF ~ReadExactOk(Drop(s, 16), name_len)
             THEN [next |-> "return", res |-> Err("IOError"), used |-> Len(s),
                   entries |-> <<>>, unknown |-> FALSE]
             ELSE [next |-> "loop", res |-> Ok, used |-> 16 + name_len,
                   entries |-> <<>>, unknown |-> FALSE]

\* one iteration of the loop on the unread bytes `s`
list_iteration(s) ==
    IF ~ReadExactOk(s, 4)
    THEN [next |-> "return", res |-> Err("IOError"), used |-> Len(s),
          entries |-> <<>>, unknown |-> FALSE]
    ELSE LET response == Take(s, 4)
         IN  CASE ~IsUtf8(response) ->
                    [next |-> "return", res |-> Err("Utf8Error"), used |-> 4,
                     entries |-> <<>>, unknown |-> FALSE]
               [] response = DENT ->
                    [list_dent(Drop(s, 4)) EXCEPT !.used = @ + 4]
               [] response = DONE ->
                    [next |-> "return", res |-> Ok, used |-> 4,
                     entries |-> <<>>, unknown |-> FALSE]
               [] OTHER ->
                    [next |-> "loop", res |-> Ok, used |-> 4,
                     entries |-> <<>>, unknown |-> TRUE]

HandleListLoop ==
    /\ pc = "list_loop"
    /\ LET it == list_iteration(rx)
       IN  /\ rx' = Drop(rx, it.used)
           /\ nread' = nread + it.used
           /\ delivered' = delivered \o it.entries
           /\ unknown_streak' = IF it.unknown THEN unknown_streak + 1
                                ELSE IF it.next = "loop" THEN 0
                                ELSE unknown_streak
           /\ pc' = IF it.next = "loop" THEN "list_loop" ELSE "returned"
           /\ result' = IF it.next = "loop" THEN result ELSE it.res
    /\ UNCHANGED <<connVars, tx, call, sync_mode, stale, junk, reply, results,
                   arg, file_pos, dents_sent>>

(***************************************************************************)
(* send_sync_request: the dispatch on the sub-command.                     *)
(***************************************************************************)
CallList ==
    \E path \in ListPaths :
        /\ sync_mode
        /\ Enter("send_sync_request",
                 [NoArg EXCEPT !.command = "List", !.to = path], rx)
        /\ ListStart(path)
        /\ UNCHANGED <<connVars, nread, result, results, sync_mode, file_pos>>

\* handle_recv_command and handle_stat_command are todo!(): the call panics
CallRecvOrStat ==
    \E command \in {"Recv", "Stat"} :
        /\ sync_mode
        /\ Enter("send_sync_request", [NoArg EXCEPT !.command = command], rx)
        /\ pc' = "aborted"
        /\ result' = Err("Panic")
        /\ UNCHANGED <<connVars, rx, tx, nread, sync_mode, junk, reply, results,
                       file_pos, listVars>>

(***************************************************************************)
(* handle_send_command.  The start: the path argument is composed and the  *)
(* header written, the local file opened.  A `from` without a file name    *)
(* panics before anything is written, a file that cannot be opened after   *)
(* the header.                                                             *)
(***************************************************************************)
send_start(from, to, f) ==
    IF FileName(from) = <<>>
    THEN [wrote |-> <<>>, next |-> "aborted"]
    ELSE [wrote |-> sync_header("Send", send_to(from, to)),
          next |-> IF f.open THEN "send_loop" ELSE "aborted"]

CallSend ==
    \E from \in FromPaths, to \in ToPaths, f \in Files :
        /\ sync_mode
        /\ Enter("send_sync_request",
                 [NoArg EXCEPT !.command = "Send", !.from = from, !.to = to,
                               !.file = f], rx)
        /\ tx' = send_start(from, to, f).wrote
        /\ pc' = send_start(from, to, f).next
        /\ result' = IF send_start(from, to, f).next = "aborted"
                     THEN Err("Panic") ELSE NoResult
        /\ UNCHANGED <<connVars, rx, nread, sync_mode, junk, reply, results,
                       file_pos, listVars>>

\* an iteration of the chunk loop that read bytes
SendChunk ==
    /\ pc = "send_loop"
    /\ file_read(arg.file.size, file_pos) # 0
    /\ tx' = tx \o data_chunk(file_pos, file_read(arg.file.size, file_pos))
    /\ file_pos' = file_pos + file_read(arg.file.size, file_pos)
    /\ UNCHANGED <<connVars, rx, nread, pc, call, result, sync_mode, stale,
                   junk, reply, results, arg, listVars>>

(***************************************************************************)
(* The end of handle_send_command, once a read returned 0: the metadata is *)
(* read, DONE and the modification time are written, and the function      *)
(* returns Ok(()) without reading from the socket: [wrote, res, next,      *)
(* used].  The server answers a DONE with one of SendReplies.              *)
(***************************************************************************)
send_finish(f) ==
    CASE f.meta = "unavailable" ->
           [wrote |-> <<>>, res |-> Err("IOError"), next |-> "returned", used |-> 0]
      [] f.meta = "before_epoch" ->
           [wrote |-> <<>>, res |-> Err("Panic"), next |-> "aborted", used |-> 0]
      [] OTHER ->
           [wrote |-> done_frame(f.mtime), res |-> Ok, next |-> "returned",
            used |-> 0]

SendFinish ==
    \E answer \in SendReplies :
        /\ pc = "send_loop"
        /\ file_read(arg.file.size, file_pos) = 0
        /\ LET fin == send_finish(arg.file)
               sent == IF fin.wrote = <<>> THEN <<>> ELSE answer
           IN  /\ tx' = tx \o fin.wrote
               /\ rx' = Drop(rx \o sent, fin.used)
               /\ nread' = nread + fin.used
               /\ reply' = Reply(sent, <<>>)
               /\ result' = fin.res
               /\ pc' = fin.next
        /\ UNCHANGED <<connVars, call, sync_mode, stale, junk, results, arg,
                       file_pos, listVars>>

(***************************************************************************)
(* push_command: reconnect, select the transport, enter sync mode, then    *)
(* the sync sub-command; every step returns its error through `?`.  The    *)
(* sub-command is handed the socket of the connexion (push.rs line 28):    *)
(* it runs handle_list_command on the socket the call opened.              *)
(***************************************************************************)
push_transport(serial) ==
    IF serial = <<>> THEN TransportAny ELSE TransportSerial(serial[1])

\* push_command going on whatever the request returned (a dropped `?`)
push_after_unchecked(res, next) == next

\* where push_command goes after a send_adb_request that returned `res`
push_after(res, next) == IF res = Ok THEN next ELSE "returned"

\* the sub-command push_command runs once in sync mode
push_sync_command == [command |-> "List", path |-> <<47, 100, 97, 116, 97, 47>>]

CallPushCommand ==
    \E serial \in Serials, connected \in BOOLEAN :
        /\ connects < MaxConnects
        /\ Enter("push_command",
                 [NoArg EXCEPT !.command = "push", !.serial = serial,
                               !.from = PushFile, !.to = PushPath], <<>>)
        /\ NewConnection(connected)
        /\ pc' = IF connected THEN "push_transport" ELSE "returned"
        /\ result' = IF connected THEN NoResult ELSE Err("IOError")
        /\ UNCHANGED <<tx, nread, reply, results, file_pos, listVars>>

PushTransport ==
    \E answer \in HostReplies :
        /\ pc = "push_transport"
        /\ HostExchange(push_transport(arg.serial), answer)
        /\ pc' = push_after(HostOutcome(push_transport(arg.serial), answer).res,
                            "push_sync")
        /\ UNCHANGED <<connVars, call, stale, arg, file_pos, listVars>>

PushSync ==
    \E answer \in HostReplies :
        /\ pc = "push_sync"
        /\ HostExchange(Sync, answer)
        /\ pc' = push_after(HostOutcome(Sync, answer).res, "push_list")
        /\ UNCHANGED <<connVars, call, stale, arg, file_pos, listVars>>

PushList ==
    /\ pc = "push_list"
    /\ ListStart(push_sync_command.path)
    /\ UNCHANGED <<connVars, nread, call, result, results, sync_mode, stale, arg,
                   file_pos>>

Next ==
    \/ Return
    \/ CallNewConnection
    \/ CallSendAdbRequest
    \/ CallProxyConnexion
    \/ CallList
    \/ CallRecvOrStat
    \/ CallSend
    \/ HandleListLoop
    \/ SendChunk
    \/ SendFinish
    \/ CallPushCommand
    \/ PushTransport
    \/ PushSync
    \/ PushList

Spec == Init /\ [][Next]_vars

(***************************************************************************)
(* What the properties below speak of.                                     *)
(***************************************************************************)
IsHexDigit(b) == (b >= 48 /\ b <= 57) \/ (b >= 65 /\ b <= 70) \/ (b >= 97 /\ b <= 102)

IsLowerHexDigit(b) == (b >= 48 /\ b <= 57) \/ (b >= 97 /\ b <= 102)

HexDigitValue(b) == IF b <= 57 THEN b - 48 ELSE IF b <= 70 THEN b - 55 ELSE b - 87

Hex4Value(d) == 4096 * HexDigitValue(d[1]) + 256 * HexDigitValue(d[2])
                + 16 * HexDigitValue(d[3]) + HexDigitValue(d[4])

\* "FAIL", 4 hex digits encoding n, n bytes of UTF-8
IsFailReply(b) ==
    /\ Len(b) >= 8
    /\ Take(b, 4) = FAIL
    /\ \A i \in 5..8 : IsHexDigit(b[i])
    /\ Len(b) = 8 + Hex4Value(SubSeq(b, 5, 8))
    /\ IsUtf8(Drop(b, 8))

\* a direct send_adb_request that began on a drained socket has returned
HostRequestReturned ==
    pc = "returned" /\ call = "send_adb_request" /\ stale = 0

\* a sync sub-command run through send_sync_request on a drained socket has returned
SubCommandReturned(command) ==
    /\ pc = "returned"
    /\ call = "send_sync_request"
    /\ arg.command = command
    /\ stale = 0

RECURSIVE EncodeEntries(_)
EncodeEntries(es) ==
    IF es = <<>> THEN <<>> ELSE EncodeDent(es[1]) \o EncodeEntries(Tail(es))

RECURSIVE OctalDigits(_)
OctalDigits(n) == IF n < 8 THEN <<48 + n>>
                  ELSE Append(OctalDigits(n \div 8), 48 + (n % 8))

\* ",0" and the octal digits of the mode; ",0777" when the mode is unavailable
ModeSuffix(f) ==
    IF f.meta = "unavailable" THEN <<44, 48, 55, 55, 55>>
    ELSE <<44, 48>> \o OctalDigits(f.mode)

EndsWith(s, t) == Len(s) >= Len(t) /\ Drop(s, Len(s) - Len(t)) = t

DataFrames(n) == (n + ChunkSize - 1) \div ChunkSize

(***************************************************************************)
(* C1: a reply "FAIL" + 4 hex digits encoding n + n bytes of UTF-8 (n = 0  *)
(* included) makes send_adb_request return the rejected-request error with *)
(* exactly those n bytes as its message, having read exactly 4 + 4 + n     *)
(* bytes: what the server sent after the body is still unread.             *)
(***************************************************************************)
C1_FailReplyRejected ==
    (HostRequestReturned /\ IsFailReply(reply.body)) =>
        /\ result = ADBRequestFailed(Drop(reply.body, 8))
        /\ nread = 4 + 4 + Hex4Value(SubSeq(reply.body, 5, 8))
        /\ rx = reply.junk

C1_Witness ==
    /\ HostRequestReturned
    /\ reply.body = FAIL \o <<48, 48, 48, 53>> \o ErrorBody
    /\ reply.junk # <<>>
    /\ result = ADBRequestFailed(ErrorBody)
    /\ nread = 13

(***************************************************************************)
(* C2: on the reply "OKAY" send_adb_request returns success having read    *)
(* exactly 4 bytes: what the server sent after the status word is unread.  *)
(***************************************************************************)
C2_OkayConsumesFour ==
    (HostRequestReturned /\ reply.body = OKAY) =>
        /\ result = Ok
        /\ nread = 4
        /\ rx = reply.junk

C2_Witness ==
    /\ HostRequestReturned
    /\ reply.body = OKAY
    /\ reply.junk # <<>>
    /\ result = Ok
    /\ rx = reply.junk

(***************************************************************************)
(* C3: for a host command whose canonical string is at most MaxCmdLen      *)
(* (9999) bytes long, the frame send_adb_request writes is 4 lowercase hex *)
(* digits followed by the command string, and the 4 digits read in base 16 *)
(* are the byte length of the rest of the frame.                           *)
(***************************************************************************)
C3_FrameLengthPrefix ==
    (pc = "returned" /\ call = "send_adb_request"
       /\ Len(AdbCommandToString(arg.adb)) <= MaxCmdLen) =>
        /\ Len(tx) = 1
        /\ tx[1].kind = "host"
        /\ Len(tx[1].bytes) = 4 + Len(AdbCommandToString(arg.adb))
        /\ \A i \in 1..4 : IsLowerHexDigit(tx[1].bytes[i])
        /\ Hex4Value(Take(tx[1].bytes, 4)) = Len(tx[1].bytes) - 4
        /\ Drop(tx[1].bytes, 4) = AdbCommandToString(arg.adb)

C3_Witness ==
    /\ pc = "returned"
    /\ call = "send_adb_request"
    /\ Len(AdbCommandToString(arg.adb)) = 9999
    /\ Take(tx[1].bytes, 4) = <<50, 55, 48, 102>>

(***************************************************************************)
(* C4: when the server answers a LIST with DENT records followed by DONE,  *)
(* the exchange succeeds and yields exactly the entries of those records,  *)
(* in order, reading nothing after DONE.                                   *)
(***************************************************************************)
C4_ListYieldsEntries ==
    (SubCommandReturned("List")
       /\ reply.body = EncodeEntries(dents_sent) \o DONE) =>
        /\ result = Ok
        /\ delivered = dents_sent
        /\ rx = reply.junk

(***************************************************************************)
(* C5: a SEND that succeeds on a local file of n bytes has written, after  *)
(* its header, ceil(n / 65536) DATA frames whose payloads are the          *)
(* consecutive slices of the file, each with the little-endian length of   *)
(* its payload, then one DONE frame; and no DATA frame written at any time *)
(* has a zero length (n = 0 and multiples of 64 KiB included).             *)
(***************************************************************************)
C5_SendDataFrames ==
    /\ \A i \in 1..Len(tx) :
          tx[i].kind = "file" =>
              /\ tx[i].len > 0
              /\ i > 2
              /\ tx[i - 2] = W("sync", DATA)
              /\ tx[i - 1] = W("sync", WriteU32(tx[i].len))
    /\ \A i \in 1..Len(tx) :
          tx[i] = W("sync", DATA) => (i + 2 <= Len(tx) /\ tx[i + 2].kind = "file")
    /\ (pc = "returned" /\ arg.command = "Send" /\ result = Ok) =>
          LET n == arg.file.size
              k == DataFrames(n)
          IN  /\ Len(tx) = 3 + 3 * k + 2
              /\ \A j \in 1..k :
                    /\ tx[3 + 3 * j].kind = "file"
                    /\ tx[3 + 3 * j].off = (j - 1) * ChunkSize
                    /\ tx[3 + 3 * j].off + tx[3 + 3 * j].len = Min(j * ChunkSize, n)
              /\ tx[3 + 3 * k + 1] = W("sync", DONE)
              /\ Cardinality({i \in 1..Len(tx) : tx[i] = W("sync", DONE)}) = 1

C5_Witness ==
    /\ pc = "returned"
    /\ arg.command = "Send"
    /\ result = Ok
    /\ arg.file.size = 2 * ChunkSize + 2048
    /\ Len(tx) = 14
    /\ tx[12].len = 2048

(***************************************************************************)
(* C6: a SEND that wrote DONE has read the server's 4-byte status before   *)
(* it returns: success on "OKAY"; on "FAIL" a little-endian u32 length and *)
(* that many message bytes, returned as the rejected-request error.        *)
(***************************************************************************)
C6_SendReadsTerminalStatus ==
    (SubCommandReturned("Send") /\ reply.body # <<>>) =>
        /\ nread >= 4
        /\ (reply.body = OKAY => result = Ok)
        /\ (Take(reply.body, 4) = FAIL =>
               /\ result = ADBRequestFailed(Drop(reply.body, 8))
               /\ nread = Len(reply.body))

(***************************************************************************)
(* C7: a sync sub-command that returns has read every byte the server sent *)
(* in reply to it: only what the server sent after that reply is unread.   *)
(***************************************************************************)
C7_SubExchangeDrained ==
    (pc = "returned" /\ call = "send_sync_request" /\ stale = 0 /\ result = Ok) =>
        rx = reply.junk

(***************************************************************************)
(* C8: in push_command a sync-framed write comes only right after the      *)
(* "sync:" request of that call, on the socket the call opened, returned   *)
(* Ok; when the reconnect, the transport selection or the Sync request     *)
(* fails, push_command returns the error and has written no sync-framed    *)
(* byte, and no "sync:" frame after a failed transport selection.          *)
(***************************************************************************)
C8_SyncOnlyAfterSyncOkay ==
    call = "push_command" =>
        /\ \A i \in 1..Len(tx) :
              tx[i].kind = "sync" =>
                  /\ i >= 3
                  /\ tx[2] = W("host", adb_request(Sync))
                  /\ Len(results) = 2
                  /\ results[2] = Ok
                  /\ \A j \in 3..i : tx[j].kind = "sync"
        /\ \A i \in 1..Len(tx) :
              tx[i] = W("host", adb_request(Sync)) =>
                  (i = 2 /\ results[1] = Ok)
        /\ (pc = "returned" /\ (Len(results) < 2 \/ results[Len(results)] # Ok)) =>
              /\ result # Ok
              /\ result = (IF results = <<>> THEN Err("IOError")
                           ELSE results[Len(results)])
              /\ \A i \in 1..Len(tx) : tx[i].kind = "host"
              /\ Len(tx) = Len(results)

C8_Witness ==
    /\ call = "push_command"
    /\ pc = "returned"
    /\ Len(results) = 2
    /\ results[1] = Ok
    /\ results[2] = ADBRequestFailed(ErrorBody)
    /\ result = ADBRequestFailed(ErrorBody)
    /\ Len(tx) = 2

(***************************************************************************)
(* C9: the LIST loop skips unknown tags only up to a maximum streak        *)
(* (MaxUnknownStreak) and then ends the exchange with an error: it is      *)
(* never still running after a longer streak.                              *)
(***************************************************************************)
C9_UnknownTagStreakBounded ==
    unknown_streak <= MaxUnknownStreak

(***************************************************************************)
(* C10: the path argument of the SEND header ends with "," and the octal   *)
(* mode of the local file (0777 only when the mode is unavailable), and    *)
(* the length in the header is the byte length of that argument.           *)
(***************************************************************************)
C10_SendHeaderCarriesFileMode ==
    (call = "send_sync_request" /\ arg.command = "Send" /\ pc = "send_loop") =>
        /\ EndsWith(tx[3].bytes, ModeSuffix(arg.file))
        /\ tx[2].bytes = WriteU32(Len(tx[3].bytes))

(***************************************************************************)
(* C11: a SEND that came to the end of the local file either writes a DONE *)
(* frame carrying the file's modification time in seconds as a             *)
(* little-endian u32 and succeeds, or, when that time is unavailable (the  *)
(* metadata cannot be read, the time is before the epoch), returns a       *)
(* typed error having written no DONE frame.                               *)
(***************************************************************************)
C11_DoneCarriesModifiedTime ==
    (call = "send_sync_request" /\ arg.command = "Send" /\ arg.file.open
       /\ FileName(arg.from) # <<>> /\ pc \in {"returned", "aborted"}) =>
        IF arg.file.meta = "ok"
        THEN /\ pc = "returned"
             /\ result = Ok
             /\ Len(tx) >= 2
             /\ SubSeq(tx, Len(tx) - 1, Len(tx))
                  = <<W("sync", DONE), W("sync", WriteU32(arg.file.mtime))>>
        ELSE /\ pc = "returned"
             /\ result = Err("IOError")
             /\ \A i \in 1..Len(tx) : tx[i] # W("sync", DONE)

(***************************************************************************)
(* C12: when the 4 status bytes send_adb_request read are neither "OKAY"   *)
(* nor "FAIL", it returns a decode error (never success, never a rejected  *)
(* request) and has read nothing after the 4 status bytes.                 *)
(***************************************************************************)
C12_OtherStatusIsDecodeError ==
    (HostRequestReturned /\ Len(reply.body \o reply.junk) >= 4
       /\ Take(reply.body \o reply.junk, 4) \notin {OKAY, FAIL}) =>
        /\ result \in {Err("UnknownResponseType"), Err("Utf8Error")}
        /\ nread = 4
        /\ rx = Drop(reply.body \o reply.junk, 4)

C12_Witness ==
    /\ HostRequestReturned
    /\ reply.body = <<79, 75, 65, 88>>
    /\ reply.junk = Format04x(5) \o ErrorBody
    /\ result = Err("UnknownResponseType")
    /\ nread = 4
    /\ rx = reply.junk

(***************************************************************************)
(* C13: get_body_length reads exactly 4 bytes; it returns their base-16    *)
(* value when all 4 are hex digits, and for 4 bytes of which one is not a  *)
(* hex digit it fails with the conversion error and returns no length:     *)
(* the request that was reading the length of an error body returns that   *)
(* error having read the status and these 4 bytes only.                    *)
(***************************************************************************)
C13_LengthOnlyFromHexDigits ==
    (HostRequestReturned /\ Len(reply.body) >= 8 /\ Take(reply.body, 4) = FAIL) =>
        LET digits == SubSeq(reply.body, 5, 8)
            l == get_body_length(Drop(reply.body, 4))
        IN  /\ l.used = 4
            /\ IF \A i \in 1..4 : IsHexDigit(digits[i])
               THEN l.res = Ok /\ l.value = Hex4Value(digits)
               ELSE /\ l.res \in {Err("ParseIntError"), Err("Utf8Error")}
                    /\ result = l.res
                    /\ nread = 8

(***************************************************************************)
(* C14: for a host command whose canonical string is longer than 65535     *)
(* bytes send_adb_request returns the conversion error and writes nothing; *)
(* every host frame written begins with exactly 4 hex digits that count    *)
(* the bytes after them.                                                   *)
(***************************************************************************)
C14_LongCommandRefused ==
    /\ \A i \in 1..Len(tx) :
          tx[i].kind = "host" =>
              /\ \A j \in 1..4 : IsHexDigit(tx[i].bytes[j])
              /\ Hex4Value(Take(tx[i].bytes, 4)) = Len(tx[i].bytes) - 4
    /\ (pc = "returned" /\ call = "send_adb_request"
          /\ Len(AdbCommandToString(arg.adb)) > 65535) =>
            /\ result = Err("ConvertionError")
            /\ tx = <<>>

\* whether a LIST reply `b` ends before the loop has all the bytes it asks
\* for: fewer than 4 bytes of tag, a DENT record cut in its fields or name
RECURSIVE ListReplyTruncated(_)
ListReplyTruncated(b) ==
    IF Len(b) < 4 THEN TRUE
    ELSE CASE ~IsUtf8(Take(b, 4)) -> FALSE
           [] Take(b, 4) = DONE -> FALSE
           [] Take(b, 4) = DENT ->
                \/ Len(b) < 20
                \/ Len(b) < 20 + ReadU32(SubSeq(b, 17, 20))
                \/ ListReplyTruncated(Drop(b, 20 + ReadU32(SubSeq(b, 17, 20))))
           [] OTHER -> ListReplyTruncated(Drop(b, 4))

\* whether a reply `b` to a host request ends inside the status word, the
\* hex length or the error body it declares
HostReplyTruncated(b) ==
    \/ Len(b) < 4
    \/ /\ Take(b, 4) = FAIL
       /\ \/ Len(b) < 8
          \/ /\ \A i \in 5..8 : IsHexDigit(b[i])
             /\ Len(b) < 8 + Hex4Value(SubSeq(b, 5, 8))

(***************************************************************************)
(* C15: when the stream ends before a read has all the bytes it asked for  *)
(* (the status word, the hex length, the error body, a DENT record or its  *)
(* name), send_adb_request and the LIST exchange return the transport      *)
(* error: never success, never a rejected request with a shortened         *)
(* message.                                                                *)
(***************************************************************************)
C15_TruncatedReplyIsTransportError ==
    /\ (HostRequestReturned /\ HostReplyTruncated(reply.body \o reply.junk)) =>
          result = Err("IOError")
    /\ (SubCommandReturned("List")
          /\ ListReplyTruncated(reply.body \o reply.junk)) =>
          result = Err("IOError")

C15_Witness ==
    /\ HostRequestReturned
    /\ reply.body = FAIL \o Format04x(5) \o <<101, 114>>
    /\ result = Err("IOError")
    /\ rx = <<>>
    /\ nread = 10

(***************************************************************************)
(* C16: send_sync_request never aborts: for every SyncCommand variant and  *)
(* every argument the call ends by returning a result to its caller.       *)
(***************************************************************************)
C16_SyncRequestAlwaysReturns ==
    call = "send_sync_request" => (pc # "aborted" /\ result # Err("Panic"))

(***************************************************************************)
(* C17: a push_command call opens a connection exactly once, as its first  *)
(* step and before it writes anything, to the peer address stored at       *)
(* creation; from then on until it returns, every frame it writes (the     *)
(* transport selection, "sync:", the sync frames) goes to that socket: the *)
(* socket of the connexion is not replaced and nothing connects.           *)
(***************************************************************************)
C17_PushConnectsOnceFirst ==
    [][ /\ (call # "push_command" /\ call' = "push_command") =>
              /\ tx = <<>> /\ tx' = <<>>
              /\ \/ /\ tcp_stream' = Socket(socket_addr, connects + 1)
                    /\ connects' = connects + 1
                    /\ pc' = "push_transport"
                 \/ /\ UNCHANGED <<tcp_stream, connects>>
                    /\ pc' = "returned"
                    /\ result' = Err("IOError")
        /\ (call = "push_command" /\ call' = "push_command") =>
              /\ UNCHANGED <<socket_addr, tcp_stream, connects>>
              /\ tcp_stream.peer = socket_addr
              /\ (tx' # tx => tcp_stream.id = connects)
      ]_vars

C17_Witness ==
    /\ call = "push_command"
    /\ pc = "list_loop"
    /\ tcp_stream = Socket(socket_addr, 2)
    /\ connects = 2
    /\ Len(tx) = 5
    /\ tx[1].kind = "host"
    /\ tx[2] = W("host", adb_request(Sync))
    /\ tx[5].kind = "sync"

(***************************************************************************)
(* C18: once the transport selection and the "sync:" request of a          *)
(* push_command(serial, filename, path) were both accepted, the sync       *)
(* sub-command the call writes on the connection is a SEND whose path      *)
(* argument is made of filename and path.                                  *)
(***************************************************************************)
C18_PushSendsFile ==
    (call = "push_command" /\ Len(results) = 2 /\ results[2] = Ok
       /\ Len(tx) > 2) =>
        /\ Len(tx) >= 5
        /\ tx[3] = W("sync", SyncCommandToString("Send"))
        /\ tx[4] = W("sync", WriteU32(Len(tx[5].bytes)))
        /\ tx[5] = W("sync", send_to(arg.from, arg.to))

\* a proxy_connexion that began on a drained socket has returned
ProxyReturned ==
    pc = "returned" /\ call = "proxy_connexion" /\ stale = 0

\* "OKAY", 4 hex digits encoding n, at least n bytes
IsOkayResponse(b) ==
    /\ Len(b) >= 8
    /\ Take(b, 4) = OKAY
    /\ \A i \in 5..8 : IsHexDigit(b[i])
    /\ Len(b) >= 8 + Hex4Value(SubSeq(b, 5, 8))

(***************************************************************************)
(* C19: proxy_connexion(command, with_response).  After the status "OKAY", *)
(* with with_response it reads 4 hex digits encoding n and returns exactly *)
(* the next n bytes (none when n = 0), having read 4 + 4 + n bytes;        *)
(* without with_response it returns an empty body having read the 4 status *)
(* bytes only.  A rejected request is returned as the error, and nothing   *)
(* is read after the error body.                                           *)
(***************************************************************************)
C19_ProxyReadsResponse ==
    LET b == reply.body \o reply.junk
        n == Hex4Value(SubSeq(b, 5, 8))
    IN  /\ (ProxyReturned /\ arg.with_response /\ IsOkayResponse(b)) =>
              /\ result = OkBody(SubSeq(b, 9, 8 + n))
              /\ nread = 4 + 4 + n
              /\ rx = Drop(b, 8 + n)
        /\ (ProxyReturned /\ ~arg.with_response /\ Len(b) >= 4
              /\ Take(b, 4) = OKAY) =>
              /\ result = OkBody(<<>>)
              /\ nread = 4
              /\ rx = Drop(b, 4)
        /\ (ProxyReturned /\ IsFailReply(reply.body)) =>
              /\ result = ADBRequestFailed(Drop(reply.body, 8))
              /\ nread = Len(reply.body)
              /\ rx = reply.junk

C19_Witness ==
    /\ ProxyReturned
    /\ arg.with_response
    /\ reply.body = OKAY \o Format04x(5) \o ResponseBody
    /\ reply.junk = <<88, 89>>
    /\ result = OkBody(ResponseBody)
    /\ nread = 13
    /\ rx = <<88, 89>>

(***************************************************************************)
(* C20: the peer address never changes after creation; a new_connection    *)
(* that fails returns the error and leaves the socket of the connexion     *)
(* and what is unread on it as they were; the socket is replaced only by a *)
(* connect that succeeded, with the socket of that connect to the peer     *)
(* address.                                                                *)
(***************************************************************************)
C20_FailedConnectChangesNothing ==
    [][ /\ socket_addr' = socket_addr
        /\ (pc = "idle" /\ call' = "new_connection") =>
              IF result' = Ok
              THEN tcp_stream' = Socket(socket_addr, connects + 1)
              ELSE /\ result' = Err("IOError")
                   /\ UNCHANGED <<tcp_stream, connects, rx, sync_mode>>
        /\ tcp_stream' # tcp_stream =>
              /\ connects' = connects + 1
              /\ tcp_stream' = Socket(socket_addr, connects')
      ]_vars

C20_Witness ==
    /\ pc = "returned"
    /\ call = "new_connection"
    /\ result = Err("IOError")
    /\ tcp_stream = Socket(socket_addr, 1)
    /\ connects = 1
    /\ sync_mode
    /\ rx # <<>>

====
